---------------------------- MODULE Spec2Model ----------------------------
(***************************************************************************)
(* API gateway core (src/unnamed/part_001): the relay dispatcher, the      *)
(* error translator and the envelope cipher, as state machines.            *)
(*                                                                         *)
(* JavaScript values are tagged records, so that values of different       *)
(* JavaScript types can be compared: undefined, null, strings and objects  *)
(* (a record of fields).  A call that may throw returns a completion:      *)
(* [ok |-> TRUE, value |-> v] or [ok |-> FALSE, error |-> e].              *)
(***************************************************************************)
EXTENDS Integers, Sequences, FiniteSets, TLC

VARIABLES
    \* ---- relay dispatcher ----
    relayPc,      \* per invocation: "idle", "inflight", "returned", "threw", "failed"
    relayUrl,     \* per invocation: the endpoint bound by relay(url)
    promise,      \* per invocation: the promise returned to the caller
    settleCalls,  \* per invocation: how many times resolve/reject were called
    clients,      \* the RPC client handles created so far, each with its callback
    calls,        \* the RPC calls issued so far, each with the reply sent to it
    \* ---- error translator ----
    thrown,       \* the error object being propagated (id 0: none)
    res,          \* the transport response handle: status and body
    nextCalls,    \* how many times handleError called next()
    handled,      \* the errors handled so far, each with the body it produced
    \* ---- envelope cipher ----
    redis,        \* the credential store: apiKey -> JSON string | absent
    encPc,        \* encryptResponse in flight: "idle" or "awaiting" (redis.get)
    encCall,      \* the arguments, lookup result and call log of that invocation
    responses,    \* the completed encryptResponse calls, in order
    lastDec       \* the last decryptRequest call: arguments, call log and completion

relayVars  == <<relayPc, relayUrl, promise, settleCalls, clients, calls>>
errorVars  == <<thrown, res, nextCalls, handled>>
cipherVars == <<redis, encPc, encCall, responses, lastDec>>
vars == <<relayVars, errorVars, cipherVars>>

(***************************************************************************)
(* Bounds of the model.                                                    *)
(***************************************************************************)
MaxRelays    == 2   \* relay invocations that may be in flight together
MaxHandled   == 3   \* handleError calls recorded
MaxResponses == 2   \* completed encryptResponse calls recorded
MaxRoundTrips == 1  \* encryptResponse calls whose output decryptRequest is tried on

(***************************************************************************)
(* JavaScript values.                                                      *)
(***************************************************************************)
Undefined == [t |-> "undefined"]
Null      == [t |-> "null"]
Str(s)    == [t |-> "string", s |-> s]
Num(n)    == [t |-> "number", n |-> n]
Bool(b)   == [t |-> "boolean", b |-> b]
Arr(a)    == [t |-> "array", items |-> a]
Obj(f)    == [t |-> "object", fields |-> f]

\* JavaScript truthiness, as `if (x)` and `!x` use it.
Truthy(v) ==
    CASE v.t = "undefined" -> FALSE
      [] v.t = "null"      -> FALSE
      [] v.t = "string"    -> v.s # ""
      [] v.t = "number"    -> v.n # 0
      [] v.t = "boolean"   -> v.b
      [] OTHER             -> TRUE

\* lodash get(object, 'name'): undefined when the object is not an object or
\* has no such field.
Get(v, name) ==
    IF v.t = "object" /\ name \in DOMAIN v.fields THEN v.fields[name] ELSE Undefined

\* lodash get(object, 'a.b'): the path followed one segment at a time.
RECURSIVE GetPath(_, _)
GetPath(v, path) ==
    IF path = <<>> THEN v ELSE GetPath(Get(v, Head(path)), Tail(path))

Return(v) == [ok |-> TRUE, value |-> v]
Throw(e)  == [ok |-> FALSE, error |-> e]

\* The errors the JavaScript runtime and its libraries raise.
NativeError(name, message) == [name |-> name, message |-> message]

(***************************************************************************)
(* The error classes of ./errors (imported at part_001:7-9; the file is    *)
(* not among the sources): each carries the fields the specification's     *)
(* error taxonomy lists.                                                   *)
(***************************************************************************)
ParserError(message, extensions, locations) ==
    [name |-> "ParserError", message |-> message,
     extensions |-> extensions, locations |-> locations]
ServiceError(message)        == [name |-> "ServiceError", message |-> message]
AuthenticationError(message) == [name |-> "AuthenticationError", message |-> message]
ResourceNotFound(message)    == [name |-> "ResourceNotFound", message |-> message]


(***************************************************************************)
(* Random session material (part_001:128-129).                             *)
(* crypto.randomBytes(size).toString('hex') has 2*size characters; it is   *)
(* kept as the sequence of its two halves, each a word of `size`           *)
(* characters and each any value the generator can return, so that         *)
(* slice(0, n) is a real truncation.                                       *)
(***************************************************************************)
HexWords(chars) ==
    IF chars = 32
    THEN {"0123456789abcdef0123456789abcdef", "fedcba9876543210fedcba9876543210"}
    ELSE {"0123456789abcdef", "fedcba9876543210"}

RandomBytesHex(size) == [1..2 -> HexWords(size)]

\* String.prototype.slice(0, n) on a string held as a sequence of words:
\* the leading words that fit in n characters.
RECURSIVE Slice(_, _)
Slice(h, n) ==
    IF h = <<>> \/ Len(Head(h)) > n THEN <<>>
    ELSE <<Head(h)>> \o Slice(Tail(h), n - Len(Head(h)))

\* The JavaScript string a sequence of words stands for.
RECURSIVE HexText(_)
HexText(h) == IF h = <<>> THEN "" ELSE Head(h) \o HexText(Tail(h))

KeyBytes == 32   \* crypto.randomBytes(32)
IvBytes  == 16   \* crypto.randomBytes(16)
KeyChars == 32   \* .slice(0, 32)
IvChars  == 16   \* .slice(0, 16)

\* Every symmetric key and iv encryptResponse can generate.
SessionKeys == {HexText(Slice(h, KeyChars)) : h \in RandomBytesHex(KeyBytes)}
SessionIvs  == {HexText(Slice(h, IvChars)) : h \in RandomBytesHex(IvBytes)}

(***************************************************************************)
(* JSON.  JSON.parse and JSON.stringify are the two directions of a table  *)
(* of documents (text, value); JSON.parse throws a SyntaxError on a text   *)
(* that is no JSON document, JSON.stringify returns undefined for          *)
(* undefined.                                                              *)
(***************************************************************************)
ErrFullText == "{\"message\":\"boom\",\"extensions\":{\"code\":\"X\"},\"locations\":[{\"line\":1}]}"
ErrMsgText  == "{\"message\":\"nope\"}"
NullText    == "null"
DataText    == "{\"hello\":\"world\"}"
HeadersText == "{\"host\":\"gw\"}"
OkTrueText  == "{\"ok\":true}"
NOneText    == "{\"n\":1}"
Account1Text == "{\"account\":{\"publicKey\":\"PEM1\"}}"
Account2Text == "{\"account\":{\"publicKey\":\"PEM2\"}}"
AccountNoKeyText == "{\"account\":{\"id\":\"u3\"}}"
NotJson     == "<html>502</html>"

\* JSON.stringify({ key: symmetricKey, iv }) (part_001:133).
BlobText(key, iv) == "{\"key\":\"" \o key \o "\",\"iv\":\"" \o iv \o "\"}"
BlobValue(key, iv) == Obj([key |-> Str(key), iv |-> Str(iv)])

OkTrue  == Obj([ok |-> Bool(TRUE)])
NOne    == Obj([n |-> Num(1)])
Headers == Obj([host |-> Str("gw")])

JsonDocs ==
    { [text |-> ErrFullText,
       value |-> Obj([message |-> Str("boom"),
                      extensions |-> Obj([code |-> Str("X")]),
                      locations |-> Arr(<<Obj([line |-> Num(1)])>>)])],
      [text |-> ErrMsgText,  value |-> Obj([message |-> Str("nope")])],
      [text |-> NullText,    value |-> Null],
      [text |-> DataText,    value |-> Obj([hello |-> Str("world")])],
      [text |-> HeadersText, value |-> Headers],
      [text |-> OkTrueText,  value |-> OkTrue],
      [text |-> NOneText,    value |-> NOne],
      [text |-> Account1Text,
       value |-> Obj([account |-> Obj([publicKey |-> Str("PEM1")])])],
      [text |-> Account2Text,
       value |-> Obj([account |-> Obj([publicKey |-> Str("PEM2")])])],
      [text |-> AccountNoKeyText,
       value |-> Obj([account |-> Obj([id |-> Str("u3")])])] }
    \cup { [text |-> BlobText(k, i), value |-> BlobValue(k, i)] :
              k \in SessionKeys, i \in SessionIvs }

JSON_parse(text) ==
    IF \E d \in JsonDocs : d.text = text
    THEN Return((CHOOSE d \in JsonDocs : d.text = text).value)
    ELSE Throw(NativeError("SyntaxError", "Unexpected token in JSON"))

JSON_stringify(v) ==
    IF \E d \in JsonDocs : d.value = v
    THEN Str((CHOOSE d \in JsonDocs : d.value = v).text)
    ELSE Undefined

(***************************************************************************)
(* Relay dispatcher: relay(url)(operation) (part_001:26-45).               *)
(***************************************************************************)
Urls == {"users:50051", "files:50052"}

\* The Operations: one whose context carries the transport request, one
\* built without a context.
FullOperation ==
    Obj([operationName |-> Str("Q"),
         context |-> Obj([graphqlContext |-> Obj([req |->
             Obj([headers |-> Headers,
                  body |-> Obj([query |-> Str("{ hello }")])])])])])
BareOperation == Obj([operationName |-> Str("Q")])
Operations == {FullOperation, BareOperation}

\* The replies a backend (or the RPC layer, on a transport failure) can hand
\* to the callback: no response object at all, or an object whose error and
\* data are each unset, the empty string (how the wire format decodes an
\* unset string field), a JSON document, or a text that is no JSON.
ErrorFields == {Undefined, Str(""), Str(ErrFullText), Str(ErrMsgText),
                Str(NullText), Str(NotJson)}
DataFields  == {Undefined, Str(""), Str(DataText), Str(NotJson)}
Responses ==
    {Undefined} \cup {Obj([error |-> e, data |-> d]) : e \in ErrorFields, d \in DataFields}

\* A variant of NewClient: one client handle kept and shared by all
\* invocations.
NewClientShared(cs) == 1

\* `new server(url, credentials.createInsecure())` (line 27): a handle of
\* its own for every invocation.
NewClient(cs) == Len(cs) + 1

\* Lines 28-30: the request envelope built from the operation's context.
\* Reading a property of undefined throws a TypeError.
RelayRequest(operation) ==
    LET graphqlContext == GetPath(operation, <<"context", "graphqlContext">>)
        req == Get(graphqlContext, "req")
    IN  IF req.t # "object"
        THEN Throw(NativeError("TypeError", "Cannot read property 'headers' of undefined"))
        ELSE IF Get(req, "body").t # "object"
        THEN Throw(NativeError("TypeError", "Cannot read property 'query' of undefined"))
        ELSE Return([headers |-> JSON_stringify(Get(req, "headers")),
                     query |-> GetPath(req, <<"body", "query">>)])

\* A variant of RelayCallback: data is looked at before error.
RelayCallbackDataFirst(url, response) ==
    LET data == Get(response, "data") IN
    IF Truthy(data)
    THEN LET parsed == JSON_parse(data.s) IN
         IF ~parsed.ok
         THEN [kind |-> "throw", value |-> parsed.error]
         ELSE [kind |-> "resolve", value |-> Obj([data |-> parsed.value])]
    ELSE LET error == Get(response, "error") IN
         IF ~Truthy(error)
         THEN [kind |-> "reject", value |-> ServiceError(url \o " is not found")]
         ELSE LET parsed == JSON_parse(error.s) IN
              IF ~parsed.ok
              THEN [kind |-> "throw", value |-> parsed.error]
              ELSE [kind |-> "reject",
                    value |-> ParserError(Get(parsed.value, "message"),
                                          Get(parsed.value, "extensions"),
                                          Get(parsed.value, "locations"))]

\* A variant of RelayCallback: the `if (!data)` check is left out, so that
\* an absent data reaches JSON.parse.
RelayCallbackNoDataCheck(url, response) ==
    LET error == Get(response, "error") IN
    IF Truthy(error)
    THEN LET parsed == JSON_parse(error.s) IN
         IF ~parsed.ok
         THEN [kind |-> "throw", value |-> parsed.error]
         ELSE [kind |-> "reject",
               value |-> ParserError(Get(parsed.value, "message"),
                                     Get(parsed.value, "extensions"),
                                     Get(parsed.value, "locations"))]
    ELSE LET data == Get(response, "data")
             parsed == IF data.t = "string" THEN JSON_parse(data.s)
                       ELSE Throw(NativeError("SyntaxError", "Unexpected token u in JSON"))
         IN  IF ~parsed.ok
             THEN [kind |-> "throw", value |-> parsed.error]
             ELSE [kind |-> "resolve", value |-> Obj([data |-> parsed.value])]

\* Lines 30-44: the callback.  What it does to the promise: "reject" or
\* "resolve" with a value, or "throw" when it raises before either.
RelayCallback(url, response) ==
    LET error == Get(response, "error") IN
    IF Truthy(error)
    THEN LET parsed == JSON_parse(error.s) IN
         IF ~parsed.ok
         THEN [kind |-> "throw", value |-> parsed.error]
         ELSE LET parsedError == parsed.value
                  extensions == Get(parsedError, "extensions")
                  message    == Get(parsedError, "message")
                  locations  == Get(parsedError, "locations")
              IN  [kind |-> "reject", value |-> ParserError(message, extensions, locations)]
    ELSE LET data == Get(response, "data") IN
         IF ~Truthy(data)
         THEN [kind |-> "reject", value |-> ServiceError(url \o " is not found")]
         ELSE LET parsed == JSON_parse(data.s) IN
              IF ~parsed.ok
              THEN [kind |-> "throw", value |-> parsed.error]
              ELSE [kind |-> "resolve", value |-> Obj([data |-> parsed.value])]

\* A promise: pending until the first resolve or reject, which later ones
\* do not change.  `by` is the RPC call whose reply settled it (0: none).
PendingPromise == [state |-> "pending", value |-> Undefined, by |-> 0]
Settle(p, kind, value, by) ==
    IF p.state # "pending" THEN p
    ELSE [state |-> IF kind = "resolve" THEN "fulfilled" ELSE "rejected",
          value |-> value, by |-> by]

Invocations == 1..MaxRelays

\* relay(url)(operation): the promise executor, lines 26-30.  An exception
\* thrown by the executor rejects the promise.  Invocations are numbered in
\* the order they are made.
RelayInvoke(i, url, operation) ==
    /\ relayPc[i] = "idle"
    /\ \A j \in 1..(i - 1) : relayPc[j] # "idle"
    /\ LET h == NewClient(clients)
           request == RelayRequest(operation)
           client == [url |-> url, cb |-> 0]
           created == IF h > Len(clients) THEN Append(clients, client)
                      ELSE [clients EXCEPT ![h] = client]
       IN  /\ relayUrl' = [relayUrl EXCEPT ![i] = url]
           /\ IF request.ok
              THEN /\ clients' = [created EXCEPT ![h].cb = i]
                   /\ calls' = Append(calls, [issuer |-> i, handle |-> h,
                                              request |-> request.value,
                                              replied |-> FALSE, reply |-> Undefined])
                   /\ relayPc' = [relayPc EXCEPT ![i] = "inflight"]
                   /\ UNCHANGED <<promise, settleCalls>>
              ELSE /\ clients' = created
                   /\ promise' = [promise EXCEPT ![i] = Settle(@, "reject", request.error, 0)]
                   /\ relayPc' = [relayPc EXCEPT ![i] = "failed"]
                   /\ UNCHANGED <<calls, settleCalls>>
    /\ UNCHANGED <<errorVars, cipherVars>>

\* The reply to RPC call c arrives on its client handle and runs the
\* callback registered there.
RpcReply(c, response) ==
    /\ c \in DOMAIN calls
    /\ ~calls[c].replied
    /\ LET i == clients[calls[c].handle].cb
           out == RelayCallback(relayUrl[i], response)
       IN  /\ calls' = [calls EXCEPT ![c].replied = TRUE, ![c].reply = response]
           /\ IF out.kind = "throw"
              THEN /\ relayPc' = [relayPc EXCEPT ![i] = "threw"]
                   /\ UNCHANGED <<promise, settleCalls>>
              ELSE /\ relayPc' = [relayPc EXCEPT ![i] = "returned"]
                   /\ promise' = [promise EXCEPT ![i] = Settle(@, out.kind, out.value, c)]
                   /\ settleCalls' = [settleCalls EXCEPT ![i] = @ + 1]
    /\ UNCHANGED <<relayUrl, clients, errorVars, cipherVars>>

(***************************************************************************)
(* Error translator: handleError (part_001:64-81).                         *)
(*                                                                         *)
(* An error object is the set of its own properties, each enumerable or    *)
(* not: a class that extends Error holds `stack` (and the `message` given  *)
(* to the Error constructor) as non-enumerable own properties, while the   *)
(* fields a class assigns itself (code, extensions, locations) are         *)
(* enumerable.                                                             *)
(***************************************************************************)
Prop(name, value, enumerable) == [name |-> name, value |-> value, enumerable |-> enumerable]

ErrorObjects ==
    { \* a ParserError built from a backend error, as plain declared fields
      [props |-> { Prop("code", Str("PARSER_ERROR"), TRUE),
                   Prop("message", Str("boom"), TRUE),
                   Prop("extensions", Obj([code |-> Str("X")]), TRUE),
                   Prop("locations", Arr(<<Obj([line |-> Num(1)])>>), TRUE) }],
      \* the error with fields {code, message, extensions}
      [props |-> { Prop("code", Str("AUTH"), TRUE),
                   Prop("message", Str("bad key"), TRUE),
                   Prop("extensions", Obj([hint |-> Str("retry")]), TRUE) }],
      \* an error class extending Error: message and stack are not enumerable
      [props |-> { Prop("code", Str("SERVICE_ERROR"), TRUE),
                   Prop("message", Str("users:50051 is not found"), FALSE),
                   Prop("stack", Str("ServiceError: users:50051 is not found at relay"), FALSE) }],
      \* a native error reaching the handler: no code at all
      [props |-> { Prop("message", Str("Unexpected token in JSON"), FALSE),
                   Prop("stack", Str("SyntaxError: Unexpected token in JSON"), FALSE) }] }

\* err.name: the property read, own or not enumerable alike.
Lookup(err, name) ==
    IF \E p \in err.props : p.name = name
    THEN (CHOOSE p \in err.props : p.name = name).value
    ELSE Undefined

\* `...rest` of a destructuring: the own enumerable properties not named
\* before it.
RestOf(err, taken) == {p \in err.props : p.enumerable /\ p.name \notin taken}

\* A variant of ErrorEntry: the entry lists code, message and extensions
\* by name instead of spreading the rest.
ErrorEntryExtensionsOnly(err) ==
    [code |-> Lookup(err, "code"), message |-> Lookup(err, "message"),
     extensions |-> Lookup(err, "extensions")]

\* Lines 70-79: const { message, code, ...rest } = err; the entry
\* { code, message, ...rest } handed to res.status(200).json.
ErrorEntry(err) ==
    LET message == Lookup(err, "message")
        code    == Lookup(err, "code")
        rest    == RestOf(err, {"message", "code"})
    IN  [n \in {"code", "message"} \cup {p.name : p \in rest} |->
            IF n = "code" THEN code
            ELSE IF n = "message" THEN message
            ELSE (CHOOSE p \in rest : p.name = n).value]

\* handleError(err, _, res, next) without the call of next(): the response
\* handle and the error object after the call (the handler only reads err).
handleError(err, response) ==
    [res |-> [status |-> 200, body |-> [errors |-> <<ErrorEntry(err)>>]],
     err |-> err]

NoError == [id |-> 0, err |-> [props |-> {}]]
NoBody  == [errors |-> <<>>]

\* An error is raised somewhere in the gateway and propagates to the handler.
Raise(e) ==
    /\ thrown.id < MaxHandled
    /\ Len(handled) < MaxHandled
    /\ thrown' = [id |-> thrown.id + 1, err |-> e]
    /\ UNCHANGED <<res, nextCalls, handled, relayVars, cipherVars>>

\* The terminal handler runs on the propagated error (again, if it is
\* invoked again with the same object).
HandleError ==
    /\ thrown.id > 0
    /\ Len(handled) < MaxHandled
    /\ LET out == handleError(thrown.err, res)
       IN  /\ res' = out.res
           /\ thrown' = [thrown EXCEPT !.err = out.err]
           /\ handled' = Append(handled, [id |-> thrown.id, err |-> thrown.err,
                                          status |-> out.res.status,
                                          body |-> out.res.body])
    /\ nextCalls' = nextCalls + 1
    /\ UNCHANGED <<relayVars, cipherVars>>

(***************************************************************************)
(* Envelope cipher: the primitives (part_001:83-105).                      *)
(*                                                                         *)
(* RSA is modelled by its algebra.  A block [t |-> "rsa", pair, pad, msg,  *)
(* rnd, exp] stands for EM^(e^exp) mod n, where n and e are the modulus    *)
(* and public exponent of key pair `pair` and EM is the PKCS#1 v1.5        *)
(* encoding of msg: block type 2 (random filler rnd) for an encryption,    *)
(* block type 1 for a private-key encryption.  The public operation        *)
(* raises exp by one and the private operation lowers it by one; only a    *)
(* block with exp = 0 shows its encoding.  AES output is the term          *)
(* [t |-> "aes", alg, key, iv, pt].  Any other byte string is              *)
(* [t |-> "bytes"], with `unpads` telling whether its CBC decryption       *)
(* happens to end in valid padding.  A base64 string is the term           *)
(* [t |-> "base64", bytes].                                                *)
(***************************************************************************)
Base64(bytes) == [t |-> "base64", bytes |-> bytes]
Junk(unpads)  == [t |-> "bytes", unpads |-> unpads]

\* Buffer.from(s, 'base64'): the bytes a base64 string encodes; a string
\* that is not the encoding of a cipher's output decodes to other bytes.
FromBase64(s) == IF s.t = "base64" THEN s.bytes ELSE Junk(FALSE)

\* The PEM keys: PEM1/PRIV1 and PEM2/PRIV2 are two key pairs.  A public
\* key is derived from a private one where a public key is asked for.
Pems ==
    { [pem |-> "PEM1", pair |-> 1, private |-> FALSE],
      [pem |-> "PRIV1", pair |-> 1, private |-> TRUE],
      [pem |-> "PEM2", pair |-> 2, private |-> FALSE],
      [pem |-> "PRIV2", pair |-> 2, private |-> TRUE] }
IsPem(key) == key.t = "string" /\ \E k \in Pems : k.pem = key.s
PairOf(key) == (CHOOSE k \in Pems : k.pem = key.s).pair

\* The RSA public operation x^e mod n of key pair `pair`.
RsaPublic(pair, block) ==
    IF block.t = "rsa" /\ block.pair = pair
    THEN [block EXCEPT !.exp = @ + 1]
    ELSE Junk(FALSE)

\* crypto.publicEncrypt({ key, padding: RSA_PKCS1_PADDING }, buffer): the
\* message encoded with block type 2 and the filler the call draws, then
\* the public operation.
publicEncrypt(key, msg, filler) ==
    IF ~IsPem(key) \/ msg.t # "string"
    THEN Throw(NativeError("TypeError", "The \"key\" argument must be of type string"))
    ELSE Return(RsaPublic(PairOf(key),
                    [t |-> "rsa", pair |-> PairOf(key), pad |-> 2,
                     msg |-> msg.s, rnd |-> filler, exp |-> 0]))

\* crypto.publicDecrypt({ key, padding: RSA_PKCS1_PADDING }, buffer): the
\* public operation, then the block type 1 encoding is checked and removed.
publicDecrypt(key, bytes) ==
    IF ~IsPem(key)
    THEN Throw(NativeError("TypeError", "The \"key\" argument must be of type string"))
    ELSE LET em == RsaPublic(PairOf(key), bytes) IN
         IF em.t = "rsa" /\ em.exp = 0 /\ em.pad = 1
         THEN Return(Str(em.msg))
         ELSE Throw(NativeError("Error", "rsa routines:RSA_padding_check_PKCS1_type_1:invalid padding"))

\* Lines 83-86.  `filler` is the random padding crypto.publicEncrypt draws.
encryptKey(publicKey, symmetricKey, filler) ==
    LET out == publicEncrypt(publicKey, symmetricKey, filler)
    IN  IF out.ok THEN Return(Base64(out.value)) ELSE out

\* A variant of decryptKey: a private-key decryption (crypto.privateDecrypt),
\* the private operation followed by the check of the block type 2 encoding.
decryptKeyPrivate(publicKey, encryptedKey) ==
    IF ~IsPem(publicKey) \/ ~(\E k \in Pems : k.pem = publicKey.s /\ k.private)
    THEN Throw(NativeError("Error", "PEM routines:get_name:no start line"))
    ELSE LET bytes == FromBase64(encryptedKey)
             em == IF bytes.t = "rsa" /\ bytes.pair = PairOf(publicKey)
                   THEN [bytes EXCEPT !.exp = @ - 1] ELSE Junk(FALSE)
         IN  IF em.t = "rsa" /\ em.exp = 0 /\ em.pad = 2
             THEN Return(Str(em.msg))
             ELSE Throw(NativeError("Error", "rsa routines:RSA_padding_check_PKCS1_type_2:pkcs decoding error"))

\* Lines 88-91.
decryptKey(publicKey, encryptedKey) ==
    publicDecrypt(publicKey, FromBase64(encryptedKey))

\* The symmetric algorithms and the key and iv sizes each requires.
Ciphers ==
    { [name |-> "aes-256-cbc", keyLen |-> 32, ivLen |-> 16],
      [name |-> "aes-128-cbc", keyLen |-> 16, ivLen |-> 16] }

\* crypto.createCipheriv / createDecipheriv(algorithm, key, iv): what it
\* throws (Return(Undefined) when it throws nothing).
CipherInit(algorithm, key, iv) ==
    IF ~(\E c \in Ciphers : c.name = algorithm)
    THEN Throw(NativeError("Error", "Unknown cipher"))
    ELSE LET c == CHOOSE c \in Ciphers : c.name = algorithm IN
         IF key.t # "string" \/ iv.t # "string"
         THEN Throw(NativeError("TypeError", "The \"key\" argument must be of type string"))
         ELSE IF Len(key.s) # c.keyLen
         THEN Throw(NativeError("Error", "Invalid key length"))
         ELSE IF Len(iv.s) # c.ivLen
         THEN Throw(NativeError("Error", "Invalid IV length"))
         ELSE Return(Undefined)

\* Lines 93-98.
encryptData(data, symmetricKey, iv, algorithm) ==
    LET cipher == CipherInit(algorithm, symmetricKey, iv) IN
    IF ~cipher.ok THEN cipher
    ELSE IF data.t # "string"
    THEN Throw(NativeError("TypeError", "The \"data\" argument must be of type string"))
    ELSE Return(Base64([t |-> "aes", alg |-> algorithm, key |-> symmetricKey.s,
                        iv |-> iv.s, pt |-> data.s]))

\* Lines 100-105.  decipher.final throws when the last block does not end
\* in valid padding; what decipher.update returned before is a local
\* value, lost with the exception.  Under the right key and another iv,
\* CBC garbles the first block only.
decryptData(encryptedData, symmetricKey, iv, algorithm) ==
    LET decipher == CipherInit(algorithm, symmetricKey, iv)
        bytes == FromBase64(encryptedData)
    IN  IF ~decipher.ok THEN decipher
        ELSE IF bytes.t = "aes" /\ bytes.alg = algorithm /\ bytes.key = symmetricKey.s
        THEN IF bytes.iv = iv.s THEN Return(Str(bytes.pt))
             ELSE Return(Str("<garbled block>"))
        ELSE IF bytes.t = "bytes" /\ bytes.unpads
        THEN Return(Str("<garbled text>"))
        ELSE Throw(NativeError("Error", "digital envelope routines:EVP_DecryptFinal_ex:bad decrypt"))

(***************************************************************************)
(* Envelope cipher: decryptRequest (part_001:107-119).  Besides the        *)
(* completion, the model returns the log of the cryptographic calls made   *)
(* and the error the try block caught, if any.                             *)
(***************************************************************************)
NoneCaught == NativeError("", "")

\* Lines 113-115: the body of the try block.
DecryptTry(encryptedData, encryptedKey, publicKey, algorithm) ==
    LET unwrapped == decryptKey(publicKey, encryptedKey) IN
    IF ~unwrapped.ok THEN [out |-> unwrapped, log |-> <<"decryptKey">>]
    ELSE LET parsed == JSON_parse(unwrapped.value.s) IN
    IF ~parsed.ok THEN [out |-> parsed, log |-> <<"decryptKey">>]
    ELSE IF parsed.value.t \in {"null", "undefined"}
    THEN [out |-> Throw(NativeError("TypeError", "Cannot destructure property 'key' of null")),
          log |-> <<"decryptKey">>]
    ELSE LET key == Get(parsed.value, "key")
             iv  == Get(parsed.value, "iv")
         IN  [out |-> decryptData(encryptedData, key, iv, algorithm),
              log |-> <<"decryptKey", "decryptData">>]

\* A variant of decryptRequest: only encryptedKey is checked before the
\* try block.
decryptRequestKeyCheckOnly(data, publicKey, algorithm) ==
    LET encryptedData == Get(data, "encryptedData")
        encryptedKey  == Get(data, "encryptedKey")
    IN  IF ~Truthy(encryptedKey)
        THEN [out |-> Throw(AuthenticationError("encrypted data, encrypted key cannot null")),
              log |-> <<>>, caught |-> NoneCaught]
        ELSE LET body == DecryptTry(encryptedData, encryptedKey, publicKey, algorithm) IN
             IF body.out.ok
             THEN [out |-> body.out, log |-> body.log, caught |-> NoneCaught]
             ELSE [out |-> Throw(AuthenticationError(body.out.error.message)),
                   log |-> body.log, caught |-> body.out.error]

\* A variant of decryptRequest: no try/catch around the body, whose
\* exceptions leave the function as they are.
decryptRequestNoCatch(data, publicKey, algorithm) ==
    LET encryptedData == Get(data, "encryptedData")
        encryptedKey  == Get(data, "encryptedKey")
    IN  IF ~Truthy(encryptedData) \/ ~Truthy(encryptedKey)
        THEN [out |-> Throw(AuthenticationError("encrypted data, encrypted key cannot null")),
              log |-> <<>>, caught |-> NoneCaught]
        ELSE LET body == DecryptTry(encryptedData, encryptedKey, publicKey, algorithm) IN
             [out |-> body.out, log |-> body.log, caught |-> NoneCaught]

decryptRequest(data, publicKey, algorithm) ==
    LET encryptedData == Get(data, "encryptedData")
        encryptedKey  == Get(data, "encryptedKey")
    IN  IF ~Truthy(encryptedData) \/ ~Truthy(encryptedKey)
        THEN [out |-> Throw(AuthenticationError("encrypted data, encrypted key cannot null")),
              log |-> <<>>, caught |-> NoneCaught]
        ELSE LET body == DecryptTry(encryptedData, encryptedKey, publicKey, algorithm) IN
             IF body.out.ok
             THEN [out |-> body.out, log |-> body.log, caught |-> NoneCaught]
             ELSE [out |-> Throw(AuthenticationError(body.out.error.message)),
                   log |-> body.log, caught |-> body.out.error]

(***************************************************************************)
(* Envelope cipher: encryptResponse (part_001:121-136), in two steps: up   *)
(* to `await redis.get(apiKey)`, and the rest, which runs to completion    *)
(* once the lookup has answered.                                           *)
(***************************************************************************)
\* redis.get(apiKey): the stored string, or null.
RedisGet(store, apiKey) ==
    IF apiKey \in DOMAIN store THEN Str(store[apiKey]) ELSE Null

\* A variant of encryptResponse: the session is generated before the
\* lookup result is looked at.
encryptResponseDrawFirst(apiKeyData, responseData, algorithm, keyHex, ivHex, filler) ==
    LET symmetricKey == Str(HexText(Slice(keyHex, KeyChars)))
        iv           == Str(HexText(Slice(ivHex, IvChars)))
    IN
    IF ~Truthy(apiKeyData)
    THEN [out |-> Throw(ResourceNotFound("Invalid api key")),
          log |-> <<"randomBytes", "randomBytes">>]
    ELSE LET userData == JSON_parse(apiKeyData.s) IN
    IF ~userData.ok
    THEN [out |-> userData, log |-> <<"randomBytes", "randomBytes">>]
    ELSE LET publicKey == GetPath(userData.value, <<"account", "publicKey">>)
             encryptedData == encryptData(JSON_stringify(responseData), symmetricKey, iv, algorithm)
             encryptedKey ==
                 encryptKey(publicKey,
                            JSON_stringify(Obj([key |-> symmetricKey, iv |-> iv])), filler)
         IN
    IF ~encryptedData.ok
    THEN [out |-> encryptedData, log |-> <<"randomBytes", "randomBytes", "encryptData">>]
    ELSE IF ~encryptedKey.ok
    THEN [out |-> encryptedKey,
          log |-> <<"randomBytes", "randomBytes", "encryptData", "encryptKey">>]
    ELSE [out |-> Return(Obj([encryptedData |-> encryptedData.value,
                              encryptedKey |-> encryptedKey.value])),
          log |-> <<"randomBytes", "randomBytes", "encryptData", "encryptKey">>]

\* A variant of encryptResponse: one session, generated once, serves every
\* call.
encryptResponseFixedSession(apiKeyData, responseData, algorithm, keyHex, ivHex, filler) ==
    IF ~Truthy(apiKeyData)
    THEN [out |-> Throw(ResourceNotFound("Invalid api key")), log |-> <<>>]
    ELSE LET userData == JSON_parse(apiKeyData.s) IN
    IF ~userData.ok
    THEN [out |-> userData, log |-> <<>>]
    ELSE LET publicKey    == GetPath(userData.value, <<"account", "publicKey">>)
             symmetricKey == Str("0123456789abcdef0123456789abcdef")
             iv           == Str("0123456789abcdef")
             encryptedData == encryptData(JSON_stringify(responseData), symmetricKey, iv, algorithm)
             encryptedKey ==
                 encryptKey(publicKey,
                            JSON_stringify(Obj([key |-> symmetricKey, iv |-> iv])), filler)
         IN
    IF ~encryptedData.ok
    THEN [out |-> encryptedData, log |-> <<"encryptData">>]
    ELSE IF ~encryptedKey.ok
    THEN [out |-> encryptedKey, log |-> <<"encryptData", "encryptKey">>]
    ELSE [out |-> Return(Obj([encryptedData |-> encryptedData.value,
                              encryptedKey |-> encryptedKey.value])),
          log |-> <<"encryptData", "encryptKey">>]

\* Lines 123-135.  keyHex and ivHex are what the two randomBytes calls
\* return (as hex), filler the padding publicEncrypt draws.
encryptResponse(apiKeyData, responseData, algorithm, keyHex, ivHex, filler) ==
    IF ~Truthy(apiKeyData)
    THEN [out |-> Throw(ResourceNotFound("Invalid api key")), log |-> <<>>]
    ELSE LET userData == JSON_parse(apiKeyData.s) IN
    IF ~userData.ok
    THEN [out |-> userData, log |-> <<>>]
    ELSE LET publicKey    == GetPath(userData.value, <<"account", "publicKey">>)
             symmetricKey == Str(HexText(Slice(keyHex, KeyChars)))
             iv           == Str(HexText(Slice(ivHex, IvChars)))
             encryptedData == encryptData(JSON_stringify(responseData), symmetricKey, iv, algorithm)
         IN
    IF ~encryptedData.ok
    THEN [out |-> encryptedData, log |-> <<"randomBytes", "randomBytes", "encryptData">>]
    ELSE LET encryptedKey ==
                 encryptKey(publicKey,
                            JSON_stringify(Obj([key |-> symmetricKey, iv |-> iv])), filler)
         IN
    IF ~encryptedKey.ok
    THEN [out |-> encryptedKey,
          log |-> <<"randomBytes", "randomBytes", "encryptData", "encryptKey">>]
    ELSE [out |-> Return(Obj([encryptedData |-> encryptedData.value,
                              encryptedKey |-> encryptedKey.value])),
          log |-> <<"randomBytes", "randomBytes", "encryptData", "encryptKey">>]

\* The inputs of the cipher.
ApiKeys    == {"k1", "k2", "k3", "k9"}
Store      == [k1 |-> Account1Text, k2 |-> Account2Text, k3 |-> AccountNoKeyText]
Payloads   == {OkTrue, NOne}
Algorithms == {"aes-256-cbc", "aes-128-cbc"}
Fillers    == {"f1", "f2"}

NoCall == [responseData |-> Undefined, apiKey |-> "", algorithm |-> "",
           apiKeyData |-> Undefined, log |-> <<>>]

\* encryptResponse is called: the lookup is issued and the call suspends.
EncryptStart(limit, responseData, apiKey, algorithm) ==
    /\ encPc = "idle"
    /\ Len(responses) < limit
    /\ encPc' = "awaiting"
    /\ encCall' = [responseData |-> responseData, apiKey |-> apiKey,
                   algorithm |-> algorithm,
                   apiKeyData |-> RedisGet(redis, apiKey), log |-> <<"redis.get">>]
    /\ UNCHANGED <<redis, responses, lastDec, relayVars, errorVars>>

\* The part of the two random draws that slice(0, 32) and slice(0, 16)
\* keep; recorded with a successful call.
NoSession == [key |-> "", iv |-> ""]
Drawn(keyHex, ivHex) ==
    [key |-> HexText(Slice(keyHex, KeyChars)), iv |-> HexText(Slice(ivHex, IvChars))]

\* The lookup has answered: the rest of encryptResponse runs.
EncryptResume(keyHex, ivHex, filler) ==
    /\ encPc = "awaiting"
    /\ LET r == encryptResponse(encCall.apiKeyData, encCall.responseData,
                                encCall.algorithm, keyHex, ivHex, filler)
       IN  responses' = Append(responses,
               [responseData |-> encCall.responseData, apiKey |-> encCall.apiKey,
                algorithm |-> encCall.algorithm, found |-> Truthy(encCall.apiKeyData),
                out |-> r.out, log |-> encCall.log \o r.log,
                drawn |-> IF r.out.ok THEN Drawn(keyHex, ivHex) ELSE NoSession])
    /\ encPc' = "idle"
    /\ encCall' = NoCall
    /\ UNCHANGED <<redis, lastDec, relayVars, errorVars>>

\* What a client holding the private key of pair 1 sends: data encrypted
\* under a session of its own, and the session blob encrypted with the
\* private key (block type 1), which publicDecrypt inverts.
ClientKey == "0123456789abcdef0123456789abcdef"
ClientIv  == "0123456789abcdef"
OtherIv   == "fedcba9876543210"
ClientData == Base64([t |-> "aes", alg |-> "aes-256-cbc", key |-> ClientKey,
                      iv |-> ClientIv, pt |-> OkTrueText])
ClientWrap(msg) ==
    Base64([t |-> "rsa", pair |-> 1, pad |-> 1, msg |-> msg, rnd |-> "", exp |-> -1])

\* The payloads handed to decryptRequest: with a field missing or empty,
\* well formed, damaged in one part, and every output of encryptResponse.
InboundPayloads ==
    { Obj([encryptedData |-> d, encryptedKey |-> k]) :
        <<d, k>> \in
          { <<Undefined, ClientWrap(BlobText(ClientKey, ClientIv))>>,
            <<ClientData, Undefined>>,
            <<Str(""), Str("")>>,
            <<ClientData, ClientWrap(BlobText(ClientKey, ClientIv))>>,
            <<ClientData, ClientWrap(BlobText(ClientKey, OtherIv))>>,
            <<ClientData, ClientWrap(NotJson)>>,
            <<ClientData, ClientWrap(NullText)>>,
            <<ClientData, Base64(Junk(FALSE))>>,
            <<Base64(Junk(TRUE)), ClientWrap(BlobText(ClientKey, ClientIv))>>,
            <<Base64(Junk(FALSE)), ClientWrap(BlobText(ClientKey, ClientIv))>> } }
    \cup { responses[n].out.value : n \in {m \in DOMAIN responses : responses[m].out.ok} }

\* The key and algorithm decryptRequest is called with: the public or the
\* private key of pair 1, the key of another pair, another algorithm.
DecryptSettings ==
    { <<Str("PEM1"), "aes-256-cbc">>, <<Str("PRIV1"), "aes-256-cbc">>,
      <<Str("PEM2"), "aes-256-cbc">>, <<Str("PEM1"), "aes-128-cbc">> }

NoDecrypt == [data |-> Undefined, publicKey |-> Undefined, algorithm |-> "",
              out |-> Return(Undefined), log |-> <<>>, caught |-> NoneCaught]

\* decryptRequest is called; it runs to completion.
DecryptRequest(data, publicKey, algorithm) ==
    /\ LET r == decryptRequest(data, publicKey, algorithm)
       IN  lastDec' = [data |-> data, publicKey |-> publicKey, algorithm |-> algorithm,
                       out |-> r.out, log |-> r.log, caught |-> r.caught]
    /\ UNCHANGED <<redis, encPc, encCall, responses, relayVars, errorVars>>

(***************************************************************************)
(* The specifications: the state after start-up, and one next-state        *)
(* relation per component.                                                 *)
(***************************************************************************)
Init ==
    /\ relayPc = [i \in Invocations |-> "idle"]
    /\ relayUrl = [i \in Invocations |-> ""]
    /\ promise = [i \in Invocations |-> PendingPromise]
    /\ settleCalls = [i \in Invocations |-> 0]
    /\ clients = <<>>
    /\ calls = <<>>
    /\ thrown = NoError
    /\ res = [status |-> 0, body |-> NoBody]
    /\ nextCalls = 0
    /\ handled = <<>>
    /\ redis = Store
    /\ encPc = "idle"
    /\ encCall = NoCall
    /\ responses = <<>>
    /\ lastDec = NoDecrypt

NextRelay ==
    \/ \E i \in Invocations, url \in Urls, operation \in Operations :
         RelayInvoke(i, url, operation)
    \/ \E c \in DOMAIN calls, response \in Responses : RpcReply(c, response)

NextError ==
    \/ \E e \in ErrorObjects : Raise(e)
    \/ HandleError

NextEncrypt ==
    \/ \E responseData \in Payloads, apiKey \in ApiKeys, algorithm \in Algorithms :
         EncryptStart(MaxResponses, responseData, apiKey, algorithm)
    \/ \E keyHex \in RandomBytesHex(KeyBytes), ivHex \in RandomBytesHex(IvBytes),
          filler \in Fillers :
         EncryptResume(keyHex, ivHex, filler)

NextCipher ==
    \/ \E responseData \in Payloads, apiKey \in DOMAIN Store, algorithm \in Algorithms :
         EncryptStart(MaxRoundTrips, responseData, apiKey, algorithm)
    \/ \E keyHex \in RandomBytesHex(KeyBytes), ivHex \in RandomBytesHex(IvBytes) :
         EncryptResume(keyHex, ivHex, "f1")
    \/ \E data \in InboundPayloads, setting \in DecryptSettings :
         DecryptRequest(data, setting[1], setting[2])

SpecRelay   == Init /\ [][NextRelay]_vars
SpecError   == Init /\ [][NextError]_vars
SpecEncrypt == Init /\ [][NextEncrypt]_vars
SpecCipher  == Init /\ [][NextCipher]_vars

(***************************************************************************)
(* Properties of the relay dispatcher (checked under SpecRelay).           *)
(***************************************************************************)
\* A field of a reply is present when it holds a non-empty string: an unset
\* string field reaches the callback as undefined or as "".
Present(field) == Truthy(field)
ReplyError(c) == Get(calls[c].reply, "error")
ReplyData(c)  == Get(calls[c].reply, "data")
Structured(field) == Present(field) /\ JSON_parse(field.s).ok
Replied == {c \in DOMAIN calls : calls[c].replied}

\* C1: whatever the backend replies (error, data, both, neither, or a text
\* that is not JSON), once the reply has been handled the promise of the
\* invocation is settled, and resolve/reject ran exactly once for it.
C1_SettlesExactlyOnce ==
    \A c \in Replied :
        /\ promise[calls[c].issuer].state # "pending"
        /\ settleCalls[calls[c].issuer] = 1

\* C2: when the reply holds a structured error (with or without data), the
\* promise is rejected with a ParserError whose message, extensions and
\* locations are those parsed from the error JSON; it is never fulfilled.
C2_StructuredErrorRejects ==
    \A c \in Replied :
        Structured(ReplyError(c)) =>
            LET p == promise[calls[c].issuer]
                parsedError == JSON_parse(ReplyError(c).s).value
            IN  /\ p.state = "rejected"
                /\ p.value.name = "ParserError"
                /\ p.value.message = Get(parsedError, "message")
                /\ p.value.extensions = Get(parsedError, "extensions")
                /\ p.value.locations = Get(parsedError, "locations")

\* C2's case: a reply with a full error document and data as well has been
\* handled, and the promise is rejected with the three fields of the error.
C2_Witness ==
    \E c \in Replied :
        /\ ReplyError(c) = Str(ErrFullText)
        /\ ReplyData(c) = Str(DataText)
        /\ promise[calls[c].issuer].state = "rejected"
        /\ promise[calls[c].issuer].value.extensions = Obj([code |-> Str("X")])

\* C3: a reply with neither data nor error rejects with a ServiceError
\* naming the bound endpoint; the promise is fulfilled only on a reply with
\* data present and error absent, and then with {data: parsed data}.
C3_ServiceErrorOrData ==
    /\ \A c \in Replied :
           (~Present(ReplyError(c)) /\ ~Present(ReplyData(c))) =>
               LET i == calls[c].issuer IN
               /\ promise[i].state = "rejected"
               /\ promise[i].value = ServiceError(relayUrl[i] \o " is not found")
    /\ \A i \in Invocations :
           promise[i].state = "fulfilled" =>
               \E c \in Replied :
                   /\ calls[c].issuer = i
                   /\ Present(ReplyData(c))
                   /\ ~Present(ReplyError(c))
                   /\ JSON_parse(ReplyData(c).s).ok
                   /\ promise[i].value = Obj([data |-> JSON_parse(ReplyData(c).s).value])

\* C3's case: one invocation got no response object and was rejected with
\* the ServiceError of its endpoint, another got data only and is fulfilled.
C3_Witness ==
    \E c, d \in Replied :
        /\ calls[c].reply = Undefined
        /\ relayUrl[calls[c].issuer] = "files:50052"
        /\ promise[calls[c].issuer].value = ServiceError("files:50052 is not found")
        /\ calls[d].reply = Obj([error |-> Str(""), data |-> Str(DataText)])
        /\ promise[calls[d].issuer].state = "fulfilled"

\* What an invocation's promise is after its own call got `reply`.
OutcomeOf(i, c) ==
    LET out == RelayCallback(relayUrl[i], calls[c].reply) IN
    IF out.kind = "throw" THEN PendingPromise
    ELSE [state |-> IF out.kind = "resolve" THEN "fulfilled" ELSE "rejected",
          value |-> out.value, by |-> c]

\* C10: concurrent invocations are independent.  Each invocation that gets
\* as far as the RPC issues exactly one call, on a client handle no other
\* invocation uses, carrying {headers: JSON of the headers, query: the raw
\* query}; its promise is pending until its own call is answered and is
\* then what the callback makes of that reply alone.
C10_Independent ==
    /\ \A i \in Invocations :
           LET own == {c \in DOMAIN calls : calls[c].issuer = i} IN
           /\ Cardinality(own) = IF relayPc[i] \in {"idle", "failed"} THEN 0 ELSE 1
           /\ \A c \in own :
                  /\ clients[calls[c].handle] = [url |-> relayUrl[i], cb |-> i]
                  /\ calls[c].request = [headers |-> Str(HeadersText),
                                         query |-> Str("{ hello }")]
                  /\ promise[i] = IF calls[c].replied THEN OutcomeOf(i, c)
                                  ELSE PendingPromise
                  /\ settleCalls[i] <= 1
    /\ \A c, d \in DOMAIN calls : c # d => calls[c].handle # calls[d].handle

\* C10's case: two invocations against different endpoints are in flight
\* together and the later call is answered first.
C10_Witness ==
    /\ Len(calls) = 2
    /\ relayUrl[calls[1].issuer] # relayUrl[calls[2].issuer]
    /\ ~calls[1].replied
    /\ calls[2].replied
    /\ promise[calls[2].issuer].state = "fulfilled"
    /\ promise[calls[1].issuer].state = "pending"

(***************************************************************************)
(* Properties of the error translator (checked under SpecError).           *)
(***************************************************************************)
\* The fields an error declares: its enumerable own properties.  (The
\* stack of an Error, which is not enumerable, is no such field.)
DeclaredFields(err) == {p \in err.props : p.enumerable}

\* C9: handleError always sets status 200 and a body whose errors array has
\* exactly one entry, holding the error's code, its message and every other
\* field the error declares (extensions, locations, ...) with its value and
\* nothing else; handled again, the same error gives the same body.
C9_ErrorEnvelope ==
    /\ \A n \in DOMAIN handled :
           LET h == handled[n]
               entry == h.body.errors[1]
           IN  /\ h.status = 200
               /\ Len(h.body.errors) = 1
               /\ entry["code"] = Lookup(h.err, "code")
               /\ entry["message"] = Lookup(h.err, "message")
               /\ \A p \in DeclaredFields(h.err) : entry[p.name] = p.value
               /\ DOMAIN entry =
                      {"code", "message"} \cup {p.name : p \in DeclaredFields(h.err)}
               /\ (h.err.props = { Prop("code", Str("AUTH"), TRUE),
                                   Prop("message", Str("bad key"), TRUE),
                                   Prop("extensions", Obj([hint |-> Str("retry")]), TRUE) }
                   => entry = [code |-> Str("AUTH"), message |-> Str("bad key"),
                               extensions |-> Obj([hint |-> Str("retry")])])
    /\ \A m, n \in DOMAIN handled :
           handled[m].id = handled[n].id =>
               /\ handled[m].body = handled[n].body
               /\ handled[m].err = handled[n].err
    /\ (handled # <<>> =>
           res = [status |-> 200, body |-> handled[Len(handled)].body])
    /\ nextCalls = Len(handled)

\* C9's case: an error with code, message, extensions and locations has
\* been handled twice, and both bodies carry its locations.
C9_Witness ==
    \E m, n \in DOMAIN handled :
        /\ m < n
        /\ handled[m].id = handled[n].id
        /\ "locations" \in DOMAIN handled[n].body.errors[1]
        /\ handled[n].body.errors[1]["locations"] = Arr(<<Obj([line |-> Num(1)])>>)
        /\ res.status = 200

(***************************************************************************)
(* Properties of the envelope cipher (decryption and the round trip under  *)
(* SpecCipher, encryption alone under SpecEncrypt).                        *)
(***************************************************************************)
Succeeded == {n \in DOMAIN responses : responses[n].out.ok}
Decrypted == lastDec # NoDecrypt

\* The key pair of the account an apiKey names, and its private key.
AccountPair(apiKey) ==
    PairOf(GetPath(JSON_parse(redis[apiKey]).value, <<"account", "publicKey">>))
PrivateKey(pair) == Str((CHOOSE k \in Pems : k.pair = pair /\ k.private).pem)

\* decryptRequest was called on the output of the n-th encryptResponse call
\* with the private key matching the account and the same algorithm.
RoundTripOf(n) ==
    /\ Decrypted
    /\ lastDec.data = responses[n].out.value
    /\ lastDec.algorithm = responses[n].algorithm
    /\ lastDec.publicKey = PrivateKey(AccountPair(responses[n].apiKey))

Missing(field) == ~Truthy(field)

\* C5: decryptRequest on a payload whose encryptedData or encryptedKey is
\* missing fails with AuthenticationError without any cryptographic call
\* (neither decryptKey nor decryptData).
C5_MissingFieldRejected ==
    (Decrypted /\ (Missing(Get(lastDec.data, "encryptedData"))
                   \/ Missing(Get(lastDec.data, "encryptedKey")))) =>
        /\ ~lastDec.out.ok
        /\ lastDec.out.error.name = "AuthenticationError"
        /\ lastDec.log = <<>>

\* C5's case: a payload with its key but without its data was rejected.
C5_Witness ==
    /\ Decrypted
    /\ Get(lastDec.data, "encryptedData") = Undefined
    /\ Get(lastDec.data, "encryptedKey") = ClientWrap(BlobText(ClientKey, ClientIv))
    /\ lastDec.out = Throw(AuthenticationError("encrypted data, encrypted key cannot null"))

\* C6: a lookup that returns nothing makes encryptResponse fail with
\* ResourceNotFound after the lookup alone (no randomBytes, encryptData or
\* encryptKey); on every path the lookup is the first call, made once, and
\* any session material comes after it.
C6_LookupFirst ==
    /\ \A n \in DOMAIN responses :
           LET r == responses[n] IN
           /\ r.log[1] = "redis.get"
           /\ \A k \in 2..Len(r.log) : r.log[k] # "redis.get"
           /\ ~r.found =>
                  /\ r.out = Throw(ResourceNotFound("Invalid api key"))
                  /\ r.log = <<"redis.get">>
    /\ encPc = "awaiting" => encCall.log = <<"redis.get">>

\* C6's case: a call with an unknown apiKey ended in ResourceNotFound, and
\* a call with a known one generated its session after the lookup.
C6_Witness ==
    \E m, n \in DOMAIN responses :
        /\ responses[m].apiKey = "k9"
        /\ ~responses[m].found
        /\ responses[m].out.error.name = "ResourceNotFound"
        /\ responses[n].out.ok
        /\ responses[n].log = <<"redis.get", "randomBytes", "randomBytes",
                                "encryptData", "encryptKey">>

\* The payload of a client of pair 1, well formed.
ClientPayload ==
    Obj([encryptedData |-> ClientData,
         encryptedKey |-> ClientWrap(BlobText(ClientKey, ClientIv))])

\* C7: decryptRequest either returns the whole output of decryptData (for a
\* well-formed payload, the plaintext) or throws an AuthenticationError;
\* an exception of the key unwrap, the JSON parse or the data decryption
\* is caught and its message is the message of the AuthenticationError.
C7_OnlyAuthenticationError ==
    Decrypted =>
        /\ lastDec.out.ok =>
               /\ lastDec.out.value.t = "string"
               /\ lastDec.log = <<"decryptKey", "decryptData">>
               /\ lastDec.caught = NoneCaught
        /\ ~lastDec.out.ok =>
               /\ lastDec.out.error.name = "AuthenticationError"
               /\ lastDec.log # <<>> =>
                      /\ lastDec.caught # NoneCaught
                      /\ lastDec.out.error = AuthenticationError(lastDec.caught.message)
        /\ (/\ lastDec.data = ClientPayload
            /\ lastDec.publicKey \in {Str("PEM1"), Str("PRIV1")}
            /\ lastDec.algorithm = "aes-256-cbc")
               => lastDec.out = Return(Str(OkTrueText))

\* C7's case: the unwrapped key was not JSON; the SyntaxError of JSON.parse
\* was caught and came out as an AuthenticationError with its message.
C7_Witness ==
    /\ Decrypted
    /\ lastDec.caught.name = "SyntaxError"
    /\ lastDec.out = Throw(AuthenticationError("Unexpected token in JSON"))
    /\ lastDec.log = <<"decryptKey">>

SameRequest(m, n) ==
    /\ m # n
    /\ responses[m].responseData = responses[n].responseData
    /\ responses[m].apiKey = responses[n].apiKey

=============================================================================
